---- MODULE Spec2Model ----
(***************************************************************************)
(* State-machine model of discord/ext/ipc/server.py: the endpoint         *)
(* registry (Server.ROUTES, Server.endpoints, update_endpoints), the      *)
(* per-connection loop of Server.handle_accept, the discovery loop of     *)
(* Server.handle_multicast and the lifecycle (start, setup, destroy).     *)
(***************************************************************************)
EXTENDS Integers, Sequences, FiniteSets, TLC

(***************************************************************************)
(* Python values.  Dicts are functions with a finite domain of keys.      *)
(***************************************************************************)
None == "<None>"

EmptyDict == [k \in {} |-> None]

HasKey(d, k) == k \in DOMAIN d

\* dict.get(k): the value, or None when the key is absent
DictGet(d, k) == IF k \in DOMAIN d THEN d[k] ELSE None

\* d[k] = v
DictPut(d, k, v) == [x \in (DOMAIN d) \cup {k} |-> IF x = k THEN v ELSE d[x]]

\* {**a, **b}: on a shared key the later operand, b, wins
DictMerge(a, b) ==
    [x \in (DOMAIN a) \cup (DOMAIN b) |-> IF x \in DOMAIN b THEN b[x] ELSE a[x]]

\* str.startswith / str.endswith on a text kept as a sequence of fragments
StartsWith(text, prefix) == Len(text) > 0 /\ text[1] = prefix

EndsWith(text, suffix) == Len(text) > 0 /\ text[Len(text)] = suffix

(***************************************************************************)
(* Bounds of the model.                                                    *)
(***************************************************************************)
\* messages read on one connection
MaxMsgs == 2

\* registration calls (route decorators applied) in one run
MaxRegs == 2

(***************************************************************************)
(* Configuration, handlers and the host bot.                               *)
(***************************************************************************)
Servers == {"s1", "s2"}

Conns == {"c1", "c2", "c3"}

\* Server.__init__ defaults
DefaultPort == 1010

Ports == {DefaultPort, 8080}

\* secret_key: the default None, or a configured string
Secrets == {None, "s3cr3t"}

\* Coroutine functions that can be registered: __name__ and __qualname__
\* (split on "."); CogA is a method of the cog class "MyCog".
PlainA == [name |-> "a", qualname |-> <<"a">>]

CogA == [name |-> "a", qualname |-> <<"MyCog", "a">>]

PlainB == [name |-> "b", qualname |-> <<"b">>]

Funcs == {PlainA, CogA, PlainB}

Names == {"a", "b"}

\* bot.cogs: cog name -> cog instance
bot_cogs == [MyCog |-> "MyCog()"]

(***************************************************************************)
(* Wire frames and request envelopes.                                      *)
(***************************************************************************)
Absent == "<absent>"

EndpointVals == {Absent, "", "a", "b"}

HeaderVals ==
    { EmptyDict,
      [X |-> "y"],
      [Authorization |-> None],
      [Authorization |-> "s3cr3t"],
      [Authorization |-> "wrong"] }

DataVals == { [k |-> "v"] }

\* a JSON object with the chosen keys present
WithEndpoint(e) == IF e = Absent THEN EmptyDict ELSE [endpoint |-> e]

Requests ==
    LET E == { WithEndpoint(e) : e \in EndpointVals }
        H == E \cup { DictPut(r, "headers", h) : r \in E, h \in HeaderVals }
    IN  H \cup { DictPut(r, "data", d) : r \in H, d \in DataVals }

\* what a client can put on the socket: text that is not JSON, JSON that is
\* not an object, or a JSON object
Frames ==
    { [kind |-> "malformed"], [kind |-> "array"] }
        \cup { [kind |-> "object", obj |-> r] : r \in Requests }

\* message.json(): the decoded value, or the exception json.loads raises
message_json(frame) ==
    IF frame.kind = "malformed"
    THEN [ok |-> FALSE, exc |-> "JSONDecodeError"]
    ELSE IF frame.kind = "array"
    THEN [ok |-> TRUE, type |-> "list"]
    ELSE [ok |-> TRUE, type |-> "dict", value |-> frame.obj]

(***************************************************************************)
(* What a handler can do once awaited: return a value or raise.            *)
(* A returned dict is its items plus what json.dumps will meet in it:      *)
(*   flaw "none"     every key and value is serializable                   *)
(*   flaw "value"    a value of a non-serializable type (a set, an object) *)
(*   flaw "key"      a key that is not str/int/float/bool/None (a tuple)   *)
(*   flaw "circular" the dict contains itself                              *)
(***************************************************************************)
PyDict(items, flaw) == [type |-> "dict", items |-> items, flaw |-> flaw]

PyNone == [type |-> "NoneType"]

ReturnVals ==
    { PyDict([pong |-> TRUE], "none"),
      PyDict([pong |-> TRUE, code |-> 0], "none"),
      PyDict([pong |-> TRUE, code |-> 201], "none"),
      PyDict([pong |-> TRUE], "value"),
      PyDict([pong |-> TRUE], "key"),
      PyDict([pong |-> TRUE], "circular"),
      PyNone }

Outcomes ==
    { [kind |-> "return", value |-> v] : v \in ReturnVals }
        \cup { [kind |-> "raise", error |-> "boom"] }

\* json.dumps as aiohttp's send_json calls it: the text, or the exception
json_dumps(obj) ==
    CASE obj.flaw = "none" -> [ok |-> TRUE, text |-> obj.items]
      [] obj.flaw = "value" ->
            [ok |-> FALSE, exc |-> "TypeError",
             msg |-> <<"Object of type", "set", "is not JSON serializable">>]
      [] obj.flaw = "key" ->
            [ok |-> FALSE, exc |-> "TypeError",
             msg |-> <<"keys must be str, int, float, bool or None, not", "tuple">>]
      [] obj.flaw = "circular" ->
            [ok |-> FALSE, exc |-> "ValueError",
             msg |-> <<"Circular reference detected">>]

(***************************************************************************)
(* State.                                                                  *)
(***************************************************************************)
VARIABLES
    secret_key,        \* self.secret_key (shared by the servers of a process)
    port,              \* self.port
    Server_ROUTES,     \* the class attribute Server.ROUTES
    endpoints,         \* endpoints[s]: self.endpoints of server s
    has_inst_ROUTES,   \* has_inst_ROUTES[s]: s has an instance attribute ROUTES
    inst_ROUTES,       \* inst_ROUTES[s]: that instance attribute
    n_regs,            \* registration calls made so far
    last_merge,        \* history: what the latest update_endpoints of s read and wrote
    dirty,             \* history: a process-wide registration since the latest merge
    pc,                \* pc[c]: where connection c's handle_accept coroutine is
    srv,               \* srv[c]: the server that accepted c
    nread,             \* nread[c]: messages read on c
    cur,               \* cur[c]: the message being (or last) processed on c
    prev,              \* prev[c]: history: how the message before it ended
    wire,              \* wire[c]: message numbers of the responses sent, in order
    mpc,               \* mpc[d]: where discovery connection d's handle_multicast is
    mnread,            \* mnread[d]: probes read on d
    mcur,              \* mcur[d]: the probe last processed on d
    do_multicast,      \* self.do_multicast
    started,           \* start() has run
    ready_events,      \* "ipc_ready" events dispatched
    app,               \* app[l]: self._server / self._multicast_server is set
    setup_pc,          \* setup_pc[l]: where the setup task of listener l is
    attr_runner,       \* self._runner: unset, or the runner of a listener
    attr_webserver,    \* self._webserver: unset, or the site of a listener
    runner_st,         \* runner_st[l]: the AppRunner made for listener l
    site_st,           \* site_st[l]: the TCPSite made for listener l
    destroy_pc,        \* where destroy() is
    destroy_exc,       \* the exception that left destroy() ("" for none)
    destroy_late,      \* history: destroy() began after every setup task had finished
    destroy_steps      \* history: the release steps destroy() attempted, with
                       \* the exception each one raised ("" for none)

regvars == <<Server_ROUTES, endpoints, has_inst_ROUTES, inst_ROUTES, n_regs,
             last_merge, dirty>>

connvars == <<pc, srv, nread, cur, prev, wire>>

cfgvars == <<secret_key, port, do_multicast>>

mcvars == <<mpc, mnread, mcur>>

lifevars == <<started, ready_events, app, setup_pc, attr_runner, attr_webserver,
              runner_st, site_st, destroy_pc, destroy_exc, destroy_late,
              destroy_steps>>

\* one message's processing: the frame read, the handler invocation (at most
\* one), what the handler did, the responses sent, the ipc_error events
\* dispatched and the exception that left handle_accept
NoTxn ==
    [n |-> 0, frame |-> [kind |-> "none"], invoked |-> <<>>, outcome |-> <<>>,
     sent |-> <<>>, events |-> <<>>, exc |-> ""]

\* the Authorization value a frame presents, if it is an object with one
Presented(frame) ==
    IF frame.kind = "object" /\ HasKey(frame.obj, "headers")
          /\ HasKey(frame.obj.headers, "Authorization")
    THEN frame.obj.headers["Authorization"]
    ELSE Absent

\* what is kept of a message once the next one is read
Past(txn) ==
    [n |-> txn.n, authorization |-> Presented(txn.frame), invoked |-> txn.invoked,
     outcome |-> txn.outcome, sent |-> txn.sent]

NoMerge == [count |-> 0, inst |-> EmptyDict, routes |-> EmptyDict,
            effective |-> EmptyDict, clean |-> FALSE]

(***************************************************************************)
(* Endpoint registry.                                                      *)
(***************************************************************************)
\* mutation of self_ROUTES: the lookup goes to the class attribute whatever
\* the instance has
Server_ROUTES_lookup(s) == Server_ROUTES

\* self.ROUTES as attribute lookup resolves it: the instance attribute when
\* the instance has one, else the class attribute
self_ROUTES(s) == IF has_inst_ROUTES[s] THEN inst_ROUTES[s] ELSE Server_ROUTES

\* name or func.__name__
NameOr(name, func) == IF name \in {None, ""} THEN func.name ELSE name

\* route(name)(func): Server.ROUTES[name or func.__name__] = func
route(name, func) ==
    /\ n_regs < MaxRegs
    /\ n_regs' = n_regs + 1
    /\ Server_ROUTES' = DictPut(Server_ROUTES, NameOr(name, func), func)
    /\ dirty' = TRUE
    /\ UNCHANGED <<endpoints, has_inst_ROUTES, inst_ROUTES, last_merge>>
    /\ UNCHANGED <<cfgvars, connvars, mcvars, lifevars>>

\* server.route(name)(func): self.endpoints[name or func.__name__] = func
Server_route(s, name, func) ==
    /\ n_regs < MaxRegs
    /\ n_regs' = n_regs + 1
    /\ endpoints' = [endpoints EXCEPT ![s] = DictPut(@, NameOr(name, func), func)]
    /\ UNCHANGED <<Server_ROUTES, has_inst_ROUTES, inst_ROUTES, last_merge, dirty>>
    /\ UNCHANGED <<cfgvars, connvars, mcvars, lifevars>>

\* mutation of MergedEndpoints: the operands of the merge swapped, so that the
\* instance table wins on a shared name
MergedEndpointsInstanceLast(inst, routes) == DictMerge(routes, inst)

\* mutation of MergedEndpoints: the process-wide table left out of the merge
MergedEndpointsWithoutRoutes(inst, routes) == inst

\* the right-hand side of line 139
MergedEndpoints(inst, routes) == DictMerge(inst, routes)

\* update_endpoints of server s.  "self.ROUTES = {}" is an assignment through
\* the instance: it binds an instance attribute ROUTES and leaves the class
\* attribute Server.ROUTES, which the route decorator writes, as it was.
\* last_merge[s] records what this merge read (inst, routes), what it wrote
\* (effective), and whether it ran after another server's merge with no
\* process-wide registration since (clean).
update_endpoints(s) ==
    LET routes == self_ROUTES(s)
        merged == MergedEndpoints(endpoints[s], routes)
    IN  /\ endpoints' = [endpoints EXCEPT ![s] = merged]
        /\ inst_ROUTES' = [inst_ROUTES EXCEPT ![s] = EmptyDict]
        /\ has_inst_ROUTES' = [has_inst_ROUTES EXCEPT ![s] = TRUE]
        /\ last_merge' = [last_merge EXCEPT ![s] =
              [count |-> @.count + 1,
               inst |-> endpoints[s], routes |-> routes, effective |-> merged,
               clean |-> (~dirty /\ \E t \in Servers \ {s} : last_merge[t].count > 0)]]
        /\ dirty' = FALSE
        /\ UNCHANGED <<Server_ROUTES, n_regs>>

(***************************************************************************)
(* Server.handle_accept: the per-connection loop of the primary listener.  *)
(***************************************************************************)
\* line 167: not headers or headers.get("Authorization") != self.secret_key
Unauthorized(request, secret) ==
    \/ ~HasKey(request, "headers")
    \/ DOMAIN request.headers = {}
    \/ DictGet(request.headers, "Authorization") # secret

\* line 174: not endpoint or endpoint not in self.endpoints
InvalidEndpoint(request, table) ==
    LET endpoint == DictGet(request, "endpoint")
    IN  endpoint \in {None, ""} \/ endpoint \notin DOMAIN table

\* lines 183-193: the cog instance leads the arguments when the first part of
\* the handler's __qualname__ names a loaded cog
Arguments(func) ==
    IF HasKey(bot_cogs, func.qualname[1])
    THEN <<bot_cogs[func.qualname[1]], "server_response">>
    ELSE <<"server_response">>

UnauthorizedEventText == "Received unauthorized request (Invalid or no token provided)."

UnauthorizedText == "Received unauthorized request (invalid or no token provided)."

InvalidEndpointText == "Received invalid request (invalid or no endpoint given)."

NotSendableText ==
    "IPC route returned values which are not able to be sent over sockets."

\* mutation of ErrorEvent: the event dispatched without the endpoint
ErrorEventWithoutEndpoint(endpoint, error) == [endpoint |-> None, error |-> error]

\* bot.dispatch("ipc_error", endpoint, error)
ErrorEvent(endpoint, error) == [endpoint |-> endpoint, error |-> error]

\* lines 169-172
UnauthorizedResponse == PyDict([error |-> UnauthorizedText, code |-> 403], "none")

\* mutation of InvalidEndpointResponse: the 403 block copied without its code
\* changed
InvalidEndpointResponseAs403 ==
    PyDict([error |-> InvalidEndpointText, code |-> 403], "none")

\* lines 176-179
InvalidEndpointResponse == PyDict([error |-> InvalidEndpointText, code |-> 400], "none")

\* mutation of HandlerErrorResponse: the code left out, so that the default
\* of line 213 applies
HandlerErrorResponseWithoutCode(error) == PyDict([error |-> error], "none")

\* lines 206-209: str(error) and 500
HandlerErrorResponse(error) == PyDict([error |-> error, code |-> 500], "none")

\* lines 226-229
FallbackResponse == PyDict([error |-> NotSendableText, code |-> 500], "none")

\* mutation of WithDefaultCode: the code set to 200 without the test
WithCode200(items) == DictPut(items, "code", 200)

\* lines 212-213: a missing or falsy code becomes 200
WithDefaultCode(items) ==
    IF ~HasKey(items, "code") \/ items.code = 0
    THEN DictPut(items, "code", 200)
    ELSE items

\* line 217: the test on the TypeError's text
IsNotSerializableError(msg) ==
    StartsWith(msg, "Object of type") /\ EndsWith(msg, "is not JSON serializable")

\* lines 211-234, the try block around the send.  The result names the
\* responses put on the socket, the events dispatched, the exception that
\* leaves handle_accept ("" for none) and where the coroutine goes next.
\*   - response.get on a value that is no dict raises AttributeError, which
\*     "except TypeError" does not catch;
\*   - a TypeError whose text passes the test of line 217 sends the fallback
\*     and raises JSONEncodeError; any other TypeError is caught and dropped,
\*     and the loop goes on to the next message;
\*   - an exception of another type (ValueError) is not caught.
SendResponse(endpoint, response) ==
    IF response.type # "dict"
    THEN [sent |-> <<>>, events |-> <<>>, exc |-> "AttributeError", next |-> "crashed"]
    ELSE LET items == WithDefaultCode(response.items)
             enc == json_dumps(PyDict(items, response.flaw))
         IN  IF enc.ok
             THEN [sent |-> <<enc.text>>, events |-> <<>>, exc |-> "", next |-> "loop"]
             ELSE IF enc.exc # "TypeError"
             THEN [sent |-> <<>>, events |-> <<>>, exc |-> enc.exc, next |-> "crashed"]
             ELSE IF IsNotSerializableError(enc.msg)
             THEN [sent |-> <<json_dumps(FallbackResponse).text>>,
                   events |-> <<ErrorEvent(endpoint, NotSendableText)>>,
                   exc |-> "JSONEncodeError", next |-> "crashed"]
             ELSE [sent |-> <<>>, events |-> <<>>, exc |-> "", next |-> "loop"]

\* an exception leaves handle_accept while message txn is processed
Crash(c, txn, exc) ==
    /\ cur' = [cur EXCEPT ![c] = [txn EXCEPT !.exc = exc]]
    /\ pc' = [pc EXCEPT ![c] = "crashed"]
    /\ UNCHANGED wire

\* the send of lines 211-234 for message txn
Respond(c, txn, endpoint, response) ==
    LET r == SendResponse(endpoint, response)
    IN  /\ cur' = [cur EXCEPT ![c] =
                     [txn EXCEPT !.sent = r.sent, !.events = txn.events \o r.events,
                                 !.exc = r.exc]]
        /\ pc' = [pc EXCEPT ![c] = r.next]
        /\ wire' = [wire EXCEPT ![c] = @ \o [i \in 1..Len(r.sent) |-> txn.n]]

\* lines 153-157: server s accepts connection c; the merge runs before the
\* coroutine first suspends, at the await of websocket.prepare
Accept(c, s) ==
    /\ pc[c] = "new"
    /\ update_endpoints(s)
    /\ pc' = [pc EXCEPT ![c] = "prepare"]
    /\ srv' = [srv EXCEPT ![c] = s]
    /\ UNCHANGED <<nread, cur, prev, wire>>
    /\ UNCHANGED <<cfgvars, mcvars, lifevars>>

\* websocket.prepare returns; the coroutine waits for the first message
Prepared(c) ==
    /\ pc[c] = "prepare"
    /\ pc' = [pc EXCEPT ![c] = "loop"]
    /\ UNCHANGED <<srv, nread, cur, prev, wire>>
    /\ UNCHANGED <<regvars, cfgvars, mcvars, lifevars>>

\* lines 159-196: the loop reads a frame and runs up to the next suspension:
\* the await of the handler, or the send of a response built by the server
Receive(c, frame) ==
    /\ pc[c] = "loop"
    /\ nread[c] < MaxMsgs
    /\ nread' = [nread EXCEPT ![c] = @ + 1]
    /\ prev' = [prev EXCEPT ![c] = Past(cur[c])]
    /\ LET txn == [NoTxn EXCEPT !.n = nread[c] + 1, !.frame = frame]
           decoded == message_json(frame)
       IN  IF ~decoded.ok
           THEN Crash(c, txn, decoded.exc)
           ELSE IF decoded.type # "dict"
           THEN Crash(c, txn, "AttributeError")
           ELSE LET request == decoded.value
                    endpoint == DictGet(request, "endpoint")
                    table == endpoints[srv[c]]
                IN  IF Unauthorized(request, secret_key)
                    THEN Respond(c,
                           [txn EXCEPT !.events =
                               <<ErrorEvent(endpoint, UnauthorizedEventText)>>],
                           endpoint, UnauthorizedResponse)
                    ELSE IF InvalidEndpoint(request, table)
                    THEN Respond(c,
                           [txn EXCEPT !.events =
                               <<ErrorEvent(endpoint, InvalidEndpointText)>>],
                           endpoint, InvalidEndpointResponse)
                    ELSE IF ~HasKey(request, "data")
                    THEN Crash(c, txn, "KeyError")
                    ELSE /\ cur' = [cur EXCEPT ![c] =
                                [txn EXCEPT !.invoked =
                                    <<[func |-> table[endpoint],
                                       args |-> Arguments(table[endpoint])]>>]]
                         /\ pc' = [pc EXCEPT ![c] = "handler"]
                         /\ UNCHANGED wire
    /\ UNCHANGED srv
    /\ UNCHANGED <<regvars, cfgvars, mcvars, lifevars>>

\* lines 196-234: the awaited handler returns or raises, and the response is sent
HandlerDone(c, outcome) ==
    /\ pc[c] = "handler"
    /\ LET txn == [cur[c] EXCEPT !.outcome = <<outcome>>]
           endpoint == cur[c].frame.obj.endpoint
       IN  IF outcome.kind = "raise"
           THEN Respond(c,
                  [txn EXCEPT !.events = <<ErrorEvent(endpoint, outcome.error)>>],
                  endpoint, HandlerErrorResponse(outcome.error))
           ELSE Respond(c, txn, endpoint, outcome.value)
    /\ UNCHANGED <<srv, nread, prev>>
    /\ UNCHANGED <<regvars, cfgvars, mcvars, lifevars>>

\* the client closes the socket: the async for ends and handle_accept returns
Disconnect(c) ==
    /\ pc[c] = "loop"
    /\ pc' = [pc EXCEPT ![c] = "closed"]
    /\ UNCHANGED <<srv, nread, cur, prev, wire>>
    /\ UNCHANGED <<regvars, cfgvars, mcvars, lifevars>>

(***************************************************************************)
(* Server.handle_multicast: the loop of the discovery listener.            *)
(***************************************************************************)
DConns == {"d1"}

\* one probe's processing: the frame read, the responses sent, the ipc_error
\* events dispatched (handle_multicast has no dispatch) and the exception
\* that left handle_multicast
NoProbe ==
    [n |-> 0, frame |-> [kind |-> "none"], sent |-> <<>>, events |-> <<>>, exc |-> ""]

\* line 259
McForbiddenResponse == PyDict([error |-> "Invalid or no token provided.", code |-> 403], "none")

\* lines 261-265
McSuccessResponse(p) ==
    PyDict([message |-> "Connection success", port |-> p, code |-> 200], "none")

\* lines 258-265: the response to a decoded probe
McResponse(request, secret, p) ==
    IF Unauthorized(request, secret) THEN McForbiddenResponse ELSE McSuccessResponse(p)

\* lines 247-249: the discovery listener accepts connection d
McAccept(d) ==
    /\ mpc[d] = "new"
    /\ mpc' = [mpc EXCEPT ![d] = "loop"]
    /\ UNCHANGED <<mnread, mcur>>
    /\ UNCHANGED <<cfgvars, regvars, connvars, lifevars>>

\* lines 251-268: one probe is read, decoded, answered
McReceive(d, frame) ==
    /\ mpc[d] = "loop"
    /\ mnread[d] < MaxMsgs
    /\ mnread' = [mnread EXCEPT ![d] = @ + 1]
    /\ LET probe == [NoProbe EXCEPT !.n = mnread[d] + 1, !.frame = frame]
           decoded == message_json(frame)
       IN  IF ~decoded.ok
           THEN /\ mcur' = [mcur EXCEPT ![d] = [probe EXCEPT !.exc = decoded.exc]]
                /\ mpc' = [mpc EXCEPT ![d] = "crashed"]
           ELSE IF decoded.type # "dict"
           THEN /\ mcur' = [mcur EXCEPT ![d] = [probe EXCEPT !.exc = "AttributeError"]]
                /\ mpc' = [mpc EXCEPT ![d] = "crashed"]
           ELSE /\ mcur' = [mcur EXCEPT ![d] =
                      [probe EXCEPT !.sent =
                          <<json_dumps(McResponse(decoded.value, secret_key, port)).text>>]]
                /\ UNCHANGED mpc
    /\ UNCHANGED <<cfgvars, regvars, connvars, lifevars>>

\* the client closes the socket
McDisconnect(d) ==
    /\ mpc[d] = "loop"
    /\ mpc' = [mpc EXCEPT ![d] = "closed"]
    /\ UNCHANGED <<mnread, mcur>>
    /\ UNCHANGED <<cfgvars, regvars, connvars, lifevars>>

(***************************************************************************)
(* Lifecycle: start, the two setup tasks, destroy.                         *)
(* The AppRunner and TCPSite are aiohttp's: a runner knows the sites       *)
(* started on it; runner.cleanup() stops those sites and unregisters them; *)
(* site.stop() raises RuntimeError for a site its runner does not know     *)
(* (never started, or already stopped).                                    *)
(***************************************************************************)
Listeners == {"multicast", "primary"}

Unset == "<unset>"

\* lines 99-109
start ==
    /\ ~started
    /\ started' = TRUE
    /\ app' = [l \in Listeners |-> l = "primary" \/ do_multicast]
    /\ setup_pc' = [l \in Listeners |->
                      IF l = "primary" \/ do_multicast THEN "scheduled" ELSE "none"]
    /\ ready_events' = ready_events + 1
    /\ UNCHANGED <<attr_runner, attr_webserver, runner_st, site_st, destroy_pc,
                   destroy_exc, destroy_late, destroy_steps>>
    /\ UNCHANGED <<cfgvars, regvars, connvars, mcvars>>

\* lines 283-285, to the await of _runner.setup().  The event loop starts
\* tasks in the order start() created them: the multicast task first.
setup_runner(l) ==
    /\ setup_pc[l] = "scheduled"
    /\ l = "primary" => setup_pc["multicast"] # "scheduled"
    /\ attr_runner' = l
    /\ runner_st' = [runner_st EXCEPT ![l] = "created"]
    /\ setup_pc' = [setup_pc EXCEPT ![l] = "runner_setup"]
    /\ UNCHANGED <<started, ready_events, app, attr_webserver, site_st, destroy_pc,
                   destroy_exc, destroy_late, destroy_steps>>
    /\ UNCHANGED <<cfgvars, regvars, connvars, mcvars>>

\* lines 287-289, to the await of _webserver.start(): the site is made on the
\* task's own runner (the local _runner) and stored in self._webserver
setup_site(l) ==
    /\ setup_pc[l] = "runner_setup"
    /\ runner_st' = [runner_st EXCEPT ![l] = IF @ = "created" THEN "setup" ELSE @]
    /\ attr_webserver' = l
    /\ site_st' = [site_st EXCEPT ![l] = "created"]
    /\ setup_pc' = [setup_pc EXCEPT ![l] = "site_start"]
    /\ UNCHANGED <<started, ready_events, app, attr_runner, destroy_pc, destroy_exc,
                   destroy_late, destroy_steps>>
    /\ UNCHANGED <<cfgvars, regvars, connvars, mcvars>>

\* _webserver.start() returns: the site is registered on its runner and bound
setup_done(l) ==
    /\ setup_pc[l] = "site_start"
    /\ site_st' = [site_st EXCEPT ![l] = "bound"]
    /\ setup_pc' = [setup_pc EXCEPT ![l] = "done"]
    /\ UNCHANGED <<started, ready_events, app, attr_runner, attr_webserver, runner_st,
                   destroy_pc, destroy_exc, destroy_late, destroy_steps>>
    /\ UNCHANGED <<cfgvars, regvars, connvars, mcvars>>

\* every setup task start() created has finished
SetupFinished == \A l \in Listeners : setup_pc[l] \in {"none", "done"}

\* line 298: self._runner.cleanup().  Only the runner self._runner names is
\* cleaned up, and with it the sites bound on that runner.
destroy_cleanup ==
    /\ started
    /\ destroy_pc = "idle"
    /\ destroy_late' = SetupFinished
    /\ destroy_steps' = Append(destroy_steps,
                            [step |-> "cleanup",
                             exc |-> IF attr_runner = Unset THEN "AttributeError"
                                                            ELSE ""])
    /\ IF attr_runner = Unset
       THEN /\ destroy_pc' = "raised"
            /\ destroy_exc' = "AttributeError"
            /\ UNCHANGED <<runner_st, site_st>>
       ELSE /\ destroy_pc' = "cleanup"
            /\ destroy_exc' = ""
            /\ runner_st' = [runner_st EXCEPT ![attr_runner] =
                                IF @ = "setup" THEN "cleaned" ELSE @]
            /\ site_st' = [site_st EXCEPT ![attr_runner] =
                                IF @ = "bound" /\ runner_st[attr_runner] = "setup"
                                THEN "stopped" ELSE @]
    /\ UNCHANGED <<started, ready_events, app, setup_pc, attr_runner, attr_webserver>>
    /\ UNCHANGED <<cfgvars, regvars, connvars, mcvars>>

\* lines 299-301: if self._webserver: await self._webserver.stop()
destroy_stop ==
    /\ destroy_pc = "cleanup"
    /\ destroy_steps' = Append(destroy_steps,
                            [step |-> "stop",
                             exc |-> IF attr_webserver = Unset THEN "AttributeError"
                                     ELSE IF site_st[attr_webserver] # "bound"
                                     THEN "RuntimeError" ELSE ""])
    /\ IF attr_webserver = Unset
       THEN /\ destroy_pc' = "raised"
            /\ destroy_exc' = "AttributeError"
            /\ UNCHANGED site_st
       ELSE IF site_st[attr_webserver] # "bound"
       THEN /\ destroy_pc' = "raised"
            /\ destroy_exc' = "RuntimeError"
            /\ UNCHANGED site_st
       ELSE /\ destroy_pc' = "done"
            /\ destroy_exc' = ""
            /\ site_st' = [site_st EXCEPT ![attr_webserver] = "stopped"]
    /\ UNCHANGED <<started, ready_events, app, setup_pc, attr_runner, attr_webserver,
                   runner_st, destroy_late>>
    /\ UNCHANGED <<cfgvars, regvars, connvars, mcvars>>

(***************************************************************************)
(* Specifications.                                                         *)
(***************************************************************************)
vars == <<cfgvars, regvars, connvars, mcvars, lifevars>>

ConnInit ==
    /\ pc = [c \in Conns |-> "new"]
    /\ srv = [c \in Conns |-> None]
    /\ nread = [c \in Conns |-> 0]
    /\ cur = [c \in Conns |-> NoTxn]
    /\ prev = [c \in Conns |-> Past(NoTxn)]
    /\ wire = [c \in Conns |-> <<>>]

RegHistoryInit ==
    /\ has_inst_ROUTES = [s \in Servers |-> FALSE]
    /\ inst_ROUTES = [s \in Servers |-> EmptyDict]
    /\ n_regs = 0
    /\ last_merge = [s \in Servers |-> NoMerge]
    /\ dirty = FALSE

McInit ==
    /\ mpc = [d \in DConns |-> "new"]
    /\ mnread = [d \in DConns |-> 0]
    /\ mcur = [d \in DConns |-> NoProbe]

LifeInit ==
    /\ started = FALSE
    /\ ready_events = 0
    /\ app = [l \in Listeners |-> FALSE]
    /\ setup_pc = [l \in Listeners |-> "none"]
    /\ attr_runner = Unset
    /\ attr_webserver = Unset
    /\ runner_st = [l \in Listeners |-> "none"]
    /\ site_st = [l \in Listeners |-> "none"]
    /\ destroy_pc = "idle"
    /\ destroy_exc = ""
    /\ destroy_late = FALSE
    /\ destroy_steps = <<>>

\* The protocol engine of one server with one client connection.  The
\* registrations made while the program was imported and set up are drawn
\* here: nothing, or cog route "a" process-wide; nothing, "a", or "a" and "b"
\* on the instance.
Init ==
    /\ secret_key \in Secrets
    /\ port = DefaultPort
    /\ Server_ROUTES \in {EmptyDict, DictPut(EmptyDict, NameOr(None, CogA), CogA)}
    /\ endpoints \in
         { [s \in Servers |-> IF s = "s1" THEN t ELSE EmptyDict] :
             t \in { EmptyDict,
                     DictPut(EmptyDict, NameOr("a", PlainA), PlainA),
                     DictPut(DictPut(EmptyDict, NameOr("a", PlainA), PlainA),
                             NameOr("", PlainB), PlainB) } }
    /\ do_multicast = TRUE
    /\ RegHistoryInit
    /\ ConnInit
    /\ McInit
    /\ LifeInit

Next ==
    \/ Accept("c1", "s1")
    \/ Prepared("c1")
    \/ \E frame \in Frames : Receive("c1", frame)
    \/ \E outcome \in Outcomes : HandlerDone("c1", outcome)
    \/ Disconnect("c1")

Spec == Init /\ [][Next]_vars

\* The registry: registrations at any time, and the merges that the accepts
\* of two servers of one process run (two connections to s1, one to s2).
InitRegistry ==
    /\ secret_key = None
    /\ port = DefaultPort
    /\ do_multicast = TRUE
    /\ Server_ROUTES = EmptyDict
    /\ endpoints = [s \in Servers |-> EmptyDict]
    /\ RegHistoryInit
    /\ ConnInit
    /\ McInit
    /\ LifeInit

NextRegistry ==
    \/ \E name \in {None, ""} \cup Names, func \in Funcs : route(name, func)
    \/ \E s \in Servers, name \in {None, ""} \cup Names, func \in Funcs :
          Server_route(s, name, func)
    \/ Accept("c1", "s1")
    \/ Accept("c2", "s2")
    \/ Accept("c3", "s1")

SpecRegistry == InitRegistry /\ [][NextRegistry]_vars

\* The discovery listener with one client connection.
InitMulticast ==
    /\ secret_key \in Secrets
    /\ port \in Ports
    /\ do_multicast = TRUE
    /\ Server_ROUTES = EmptyDict
    /\ endpoints = [s \in Servers |-> EmptyDict]
    /\ RegHistoryInit
    /\ ConnInit
    /\ McInit
    /\ LifeInit

NextMulticast ==
    \/ McAccept("d1")
    \/ \E frame \in Frames : McReceive("d1", frame)
    \/ McDisconnect("d1")

SpecMulticast == InitMulticast /\ [][NextMulticast]_vars

\* The lifecycle of one server.
InitLifecycle ==
    /\ secret_key = None
    /\ port = DefaultPort
    /\ do_multicast \in BOOLEAN
    /\ Server_ROUTES = EmptyDict
    /\ endpoints = [s \in Servers |-> EmptyDict]
    /\ RegHistoryInit
    /\ ConnInit
    /\ McInit
    /\ LifeInit

NextLifecycle ==
    \/ start
    \/ \E l \in Listeners : setup_runner(l)
    \/ \E l \in Listeners : setup_site(l)
    \/ \E l \in Listeners : setup_done(l)
    \/ destroy_cleanup
    \/ destroy_stop

SpecLifecycle == InitLifecycle /\ [][NextLifecycle]_vars

\* Connections served concurrently: two client connections of the primary
\* listener of s1 and one of its discovery listener, each in its own task.
\* The clients hold the secret.  Route "a" is registered process-wide before
\* the first connection is accepted, route "b" (in one of the two initial
\* states) on the instance.
Call(e) ==
    [kind |-> "object",
     obj |-> [endpoint |-> e, headers |-> [Authorization |-> "s3cr3t"],
              data |-> [k |-> "v"]]]

ConcurrentFrames == { [kind |-> "malformed"], Call("a"), Call("b") }

ProbeFrames ==
    { [kind |-> "object", obj |-> [headers |-> [Authorization |-> "s3cr3t"]]],
      [kind |-> "object", obj |-> [headers |-> [Authorization |-> "wrong"]]] }

ConcurrentOutcomes ==
    { [kind |-> "return", value |-> PyDict([pong |-> TRUE], "none")],
      [kind |-> "return", value |-> PyDict([pong |-> TRUE], "key")] }

PrimaryConns == {"c1", "c2"}

InitConcurrent ==
    /\ secret_key = "s3cr3t"
    /\ port = DefaultPort
    /\ do_multicast = TRUE
    /\ Server_ROUTES = DictPut(EmptyDict, NameOr(None, CogA), CogA)
    /\ endpoints \in
         { [s \in Servers |-> IF s = "s1" THEN t ELSE EmptyDict] :
             t \in { EmptyDict, DictPut(EmptyDict, NameOr("", PlainB), PlainB) } }
    /\ RegHistoryInit
    /\ ConnInit
    /\ McInit
    /\ LifeInit

NextConcurrent ==
    \/ \E c \in PrimaryConns : Accept(c, "s1")
    \/ \E c \in PrimaryConns : Prepared(c)
    \/ \E c \in PrimaryConns, frame \in ConcurrentFrames : Receive(c, frame)
    \/ \E c \in PrimaryConns, outcome \in ConcurrentOutcomes : HandlerDone(c, outcome)
    \/ \E c \in PrimaryConns : Disconnect(c)
    \/ McAccept("d1")
    \/ \E frame \in ProbeFrames : McReceive("d1", frame)
    \/ McDisconnect("d1")

SpecConcurrent == InitConcurrent /\ [][NextConcurrent]_vars

(***************************************************************************)
(* Properties.                                                             *)
(***************************************************************************)
\* The envelope fails authentication as the specification defines it: no
\* headers, no Authorization entry, or an Authorization value that differs
\* from the shared secret.
FailsAuthentication(request, secret) ==
    \/ ~HasKey(request, "headers")
    \/ ~HasKey(request.headers, "Authorization")
    \/ request.headers["Authorization"] # secret

\* The envelope's endpoint is missing, empty or no key of the table.
NotRoutable(request, table) ==
    \/ ~HasKey(request, "endpoint")
    \/ request.endpoint = ""
    \/ request.endpoint \notin DOMAIN table

\* The handler returned a dict that json.dumps cannot serialize.
ReturnedNonSerializable(outcome) ==
    /\ outcome # <<>>
    /\ outcome[1].kind = "return"
    /\ outcome[1].value.type = "dict"
    /\ outcome[1].value.flaw # "none"

HandlerRaised(outcome) == outcome # <<>> /\ outcome[1].kind = "raise"

\* C1: every message on a primary-listener connection that fails
\* authentication (headers absent, no Authorization entry, or a value other
\* than the configured secret, the default None included) is answered with
\* exactly one response of code 403 and invokes no handler.
C1_UnauthenticatedGets403 ==
    \A c \in Conns :
        (cur[c].frame.kind = "object"
            /\ FailsAuthentication(cur[c].frame.obj, secret_key))
        => /\ cur[c].invoked = <<>>
           /\ Len(cur[c].sent) = 1
           /\ cur[c].sent[1].code = 403

\* C2: on the discovery listener a probe whose Authorization equals the
\* secret is answered {message: "Connection success", port: the configured
\* primary port, code: 200}; every other probe is answered with code 403 and
\* no port field.
C2_DiscoveryNeverLeaksPort ==
    \A d \in DConns :
        mcur[d].frame.kind = "object"
        => IF FailsAuthentication(mcur[d].frame.obj, secret_key)
           THEN /\ Len(mcur[d].sent) = 1
                /\ mcur[d].sent[1].code = 403
                /\ ~HasKey(mcur[d].sent[1], "port")
           ELSE mcur[d].sent =
                  <<[message |-> "Connection success", port |-> port, code |-> 200]>>

\* C3: whenever a handler returns a value that cannot be serialized, in
\* whichever way serialization fails, exactly one fallback response
\* {error, code: 500} is sent, the connection's loop ends, and no further
\* message of that connection is processed.
C3_SerializationFailureSendsFallbackAndCloses ==
    \A c \in Conns :
        /\ ReturnedNonSerializable(cur[c].outcome)
           => /\ Len(cur[c].sent) = 1
              /\ HasKey(cur[c].sent[1], "error")
              /\ cur[c].sent[1].code = 500
              /\ pc[c] = "crashed"
        /\ ~ReturnedNonSerializable(prev[c].outcome)

\* C4: a message that was read and decoded has exactly one response, or has
\* ended the connection, before the next message of the connection is read.
C4_OneResponsePerMessageBeforeNextRead ==
    \A c \in Conns :
        /\ prev[c].n > 0 => Len(prev[c].sent) = 1
        /\ (cur[c].n > 0 /\ pc[c] \in {"loop", "closed"}) => Len(cur[c].sent) = 1

\* C5: for two authenticated requests to registered endpoints read in that
\* order on one connection, the handler of the second is not started before
\* the response to the first is sent, and the response to the first is on
\* the socket before the response to the second.
C5_ResponsesInRequestOrder ==
    \A c \in Conns :
        /\ (/\ prev[c].invoked # <<>>
            /\ prev[c].authorization = secret_key
            /\ cur[c].invoked # <<>>
            /\ Presented(cur[c].frame) = secret_key)
           => \E i \in 1..Len(wire[c]) : wire[c][i] = prev[c].n
        /\ \A i, j \in 1..Len(wire[c]) : i < j => wire[c][i] <= wire[c][j]

\* C6: when the handler of an authenticated request to a registered endpoint
\* raises, the one response sent is {error: str(exception), code: 500} and
\* the loop goes on: the connection waits for its next message.
C6_HandlerExceptionGives500AndContinues ==
    \A c \in Conns :
        /\ HandlerRaised(cur[c].outcome)
           => /\ cur[c].sent = <<[error |-> cur[c].outcome[1].error, code |-> 500]>>
              /\ pc[c] \in {"loop", "closed"}
              /\ cur[c].exc = ""
        /\ HandlerRaised(prev[c].outcome)
           => prev[c].sent = <<[error |-> prev[c].outcome[1].error, code |-> 500]>>

\* C6 witness: a handler raised, and the next message of the same connection
\* was read and answered.
C6_Witness ==
    \E c \in Conns :
        /\ HandlerRaised(prev[c].outcome)
        /\ cur[c].n = prev[c].n + 1
        /\ Len(cur[c].sent) = 1

\* C7: an authenticated request whose endpoint is missing, empty or not in
\* the server's effective registry is answered with exactly one response of
\* code 400, invokes no handler, and leaves the loop running.
C7_UnknownEndpointGives400AndContinues ==
    \A c \in Conns :
        (/\ cur[c].frame.kind = "object"
         /\ ~FailsAuthentication(cur[c].frame.obj, secret_key)
         /\ NotRoutable(cur[c].frame.obj, endpoints[srv[c]]))
        => /\ Len(cur[c].sent) = 1
           /\ cur[c].sent[1].code = 400
           /\ cur[c].invoked = <<>>
           /\ pc[c] \in {"loop", "closed"}
           /\ cur[c].exc = ""

\* C7 witness: a 400 was sent for a message that invoked no handler, and the
\* next message of the connection was read and answered.
C7_Witness ==
    \E c \in Conns :
        /\ prev[c].n > 0
        /\ prev[c].invoked = <<>>
        /\ Len(prev[c].sent) = 1
        /\ prev[c].sent[1].code = 400
        /\ cur[c].frame.kind = "object"
        /\ ~FailsAuthentication(cur[c].frame.obj, secret_key)
        /\ NotRoutable(cur[c].frame.obj, endpoints[srv[c]])
        /\ Len(cur[c].sent) = 1

\* the names a merge found in both tables with different handlers
Collisions(m) ==
    { n \in (DOMAIN m.inst) \cap (DOMAIN m.routes) : m.inst[n] # m.routes[n] }

C9_MergeClearsProcessWideTable ==
    /\ ((\E s \in Servers : last_merge[s].count > 0) /\ ~dirty)
       => Server_ROUTES = EmptyDict
    /\ \A s \in Servers : last_merge[s].clean => last_merge[s].routes = EmptyDict

\* C10: with discovery enabled and destroy() called after both setup tasks
\* have finished, destroy() leaves the runner of each listener cleaned up and
\* the site of each listener stopped: neither listener remains bound.
C10_DestroyReleasesBothListeners ==
    (do_multicast /\ destroy_late /\ destroy_pc \in {"done", "raised"})
    => \A l \in Listeners : runner_st[l] = "cleaned" /\ site_st[l] = "stopped"

\* C11: in destroy(), when the first release step (the runner's cleanup of
\* line 298) raises, the second release step (the site's stop of lines
\* 299-301) is still attempted.
C11_SecondReleaseAttemptedAfterFirstFails ==
    (/\ destroy_pc \in {"done", "raised"}
     /\ Len(destroy_steps) >= 1
     /\ destroy_steps[1].step = "cleanup"
     /\ destroy_steps[1].exc # "")
    => \E i \in 1..Len(destroy_steps) : destroy_steps[i].step = "stop"

\* The message was answered by a response the server built: the 403, the
\* 400, the 500 for a handler that raised, or the 500 fallback for a return
\* value that could not be serialized.
AnsweredWithServerError(txn) ==
    /\ Len(txn.sent) = 1
    /\ \/ txn.invoked = <<>>
       \/ HandlerRaised(txn.outcome)
       \/ ReturnedNonSerializable(txn.outcome)

\* The message was answered with what its handler returned.
AnsweredSuccessfully(txn) ==
    /\ Len(txn.sent) = 1
    /\ txn.outcome # <<>>
    /\ txn.outcome[1].kind = "return"
    /\ ~ReturnedNonSerializable(txn.outcome)

\* C12: on the primary listener every message answered with a 403, a 400, a
\* handler-exception 500 or a serialization-failure 500 dispatches exactly
\* one error event, which carries the message's endpoint name (None when the
\* envelope has none) and a description; a message answered successfully
\* dispatches no error event.
C12_OneErrorEventPerErrorResponse ==
    \A c \in Conns :
        /\ AnsweredWithServerError(cur[c])
           => /\ cur[c].sent[1].code \in {400, 403, 500}
              /\ Len(cur[c].events) = 1
              /\ cur[c].events[1].endpoint = DictGet(cur[c].frame.obj, "endpoint")
              /\ cur[c].events[1].error =
                    CASE cur[c].sent[1].code = 403 -> UnauthorizedEventText
                      [] cur[c].sent[1].code = 400 -> InvalidEndpointText
                      [] HandlerRaised(cur[c].outcome) -> cur[c].outcome[1].error
                      [] OTHER -> NotSendableText
        /\ AnsweredSuccessfully(cur[c]) => cur[c].events = <<>>

\* C12 witness: the fallback 500 was sent for a request to endpoint "a" and
\* one event names that endpoint.
C12_Witness ==
    \E c \in Conns :
        /\ ReturnedNonSerializable(cur[c].outcome)
        /\ Len(cur[c].sent) = 1
        /\ cur[c].sent[1].code = 500
        /\ Len(cur[c].events) = 1
        /\ cur[c].events[1].endpoint = "a"

\* Processing the message failed on the primary listener: an exception left
\* handle_accept, or the response sent was built by the server for an error.
PrimaryFailure(txn) == txn.exc # "" \/ AnsweredWithServerError(txn)

\* Processing the probe failed on the discovery listener: an exception left
\* handle_multicast, or the probe was refused.
DiscoveryFailure(probe) ==
    \/ probe.exc # ""
    \/ Len(probe.sent) = 1 /\ probe.sent[1].code = 403

\* C13: every failure on either listener, the decode failure of a malformed
\* inbound message and the authentication failure on the discovery listener
\* included, has dispatched an error event by the time the loop goes on or
\* ends.
C13_EveryFailureDispatchesErrorEvent ==
    /\ \A c \in Conns : PrimaryFailure(cur[c]) => Len(cur[c].events) >= 1
    /\ \A d \in DConns : DiscoveryFailure(mcur[d]) => Len(mcur[d].events) >= 1

\* The handler returned a mapping that json.dumps can serialize.
ReturnedSerializableMapping(outcome) ==
    /\ outcome # <<>>
    /\ outcome[1].kind = "return"
    /\ outcome[1].value.type = "dict"
    /\ outcome[1].value.flaw = "none"

\* C14: when the handler returns a serializable mapping, the response is that
\* mapping with code 200 added or put in place of a falsy code and every
\* other key unchanged, or, when the mapping has a truthy code, the mapping
\* unchanged.  The responses the server builds for errors keep their codes:
\* 403 without a handler invoked for a refused message, 400 for an unknown
\* endpoint, 500 for a handler that raised and for the fallback.
C14_DefaultCodeAndErrorCodesKept ==
    \A c \in Conns :
        /\ ReturnedSerializableMapping(cur[c].outcome)
           => LET ret == cur[c].outcome[1].value.items
              IN  /\ Len(cur[c].sent) = 1
                  /\ IF HasKey(ret, "code") /\ ret.code # 0
                     THEN cur[c].sent[1] = ret
                     ELSE /\ cur[c].sent[1].code = 200
                          /\ DOMAIN cur[c].sent[1] = DOMAIN ret \cup {"code"}
                          /\ \A k \in DOMAIN ret \ {"code"} : cur[c].sent[1][k] = ret[k]
        /\ (AnsweredWithServerError(cur[c]) /\ cur[c].invoked = <<>>)
           => cur[c].sent[1].code =
                 IF Unauthorized(cur[c].frame.obj, secret_key) THEN 403 ELSE 400
        /\ (AnsweredWithServerError(cur[c]) /\ cur[c].invoked # <<>>)
           => cur[c].sent[1].code = 500

\* C14 witness: a handler's falsy code was replaced by 200 and its other key
\* sent as returned.
C14_Witness ==
    \E c \in Conns :
        /\ ReturnedSerializableMapping(cur[c].outcome)
        /\ HasKey(cur[c].outcome[1].value.items, "code")
        /\ cur[c].outcome[1].value.items.code = 0
        /\ cur[c].sent = <<[pong |-> TRUE, code |-> 200]>>

\* The frame is a decodable request that carries the configured secret.
AuthenticatedRequest(frame) ==
    /\ frame.kind = "object"
    /\ ~FailsAuthentication(frame.obj, secret_key)

\* C15: the loop of a primary-listener connection ends only when the client
\* disconnects, when an inbound message cannot be decoded, or when a response
\* cannot be serialized: an authenticated, decodable request, whatever its
\* fields and whatever its handler returns or raises, ends the loop in no
\* other way.  (A frame that is no JSON object counts as undecodable here.)
C15_LoopEndsOnlyOnThreeCauses ==
    \A c \in Conns :
        (pc[c] = "crashed" /\ AuthenticatedRequest(cur[c].frame))
        => /\ ReturnedNonSerializable(cur[c].outcome)
           /\ cur[c].exc \in {"JSONEncodeError", "TypeError", "ValueError"}

\* Connection c can take its next step: read its pending message when it is
\* waiting in the loop, send the response when its handler has completed.
CanProceed(c) ==
    /\ (pc[c] = "loop" /\ nread[c] < MaxMsgs)
       => ENABLED (\E frame \in ConcurrentFrames : Receive(c, frame))
    /\ pc[c] = "handler"
       => ENABLED (\E outcome \in ConcurrentOutcomes : HandlerDone(c, outcome))

\* Discovery connection d can read and answer its pending probe.
McCanProceed(d) ==
    (mpc[d] = "loop" /\ mnread[d] < MaxMsgs)
    => ENABLED (\E frame \in ProbeFrames : McReceive(d, frame))

\* C16: connections are independent.  While the handler of one connection
\* has not completed, or after a decode or serialization failure has ended
\* one connection, every other connection, primary or discovery, can still
\* have its pending message read, handled and answered; and every message
\* whose handler has completed is answered.  (The response is sent in the
\* step in which the handler completes, so a message whose handler has
\* completed and that has no response is never answered later.)
C16_ConnectionsIndependentAndAnswered ==
    /\ \A c \in PrimaryConns :
          (\E o \in PrimaryConns \ {c} : pc[o] \in {"handler", "crashed"})
          => CanProceed(c) /\ \A d \in DConns : McCanProceed(d)
    /\ \A c \in PrimaryConns : cur[c].outcome # <<>> => Len(cur[c].sent) >= 1

\* the step is a merge (an accept runs update_endpoints) or a process-wide
\* registration
MergeOrProcessWideRegistration ==
    \/ \E c \in Conns, s \in Servers : Accept(c, s)
    \/ \E name \in {None, ""} \cup Names, func \in Funcs : route(name, func)

\* C17: once a server instance has performed its first merge, a further
\* merge (every later accepted connection) and a process-wide registration
\* leave the instance's effective table unchanged.
C17_EffectiveTableFixedAfterFirstMerge ==
    [][MergeOrProcessWideRegistration
         => \A s \in Servers :
               last_merge[s].count > 0 => endpoints'[s] = endpoints[s]]_vars

\* C17 witness: s1 has merged twice, the second time after a process-wide
\* registration of a name its table does not have, and its table still
\* lacks the name.
C17_Witness ==
    /\ last_merge["s1"].count = 2
    /\ last_merge["s2"].count = 0
    /\ ~dirty
    /\ \E n \in DOMAIN Server_ROUTES : n \notin DOMAIN endpoints["s1"]

\* C18: authentication is decided before routing.  A message that fails
\* authentication is answered with the one 403 response whether its endpoint
\* is registered, missing or unknown, never with a 400: the response does not
\* depend on the endpoint.
C18_RefusalIndependentOfEndpoint ==
    \A c \in Conns :
        (cur[c].frame.kind = "object"
            /\ FailsAuthentication(cur[c].frame.obj, secret_key))
        => cur[c].sent = <<[error |-> UnauthorizedText, code |-> 403]>>

\* C19: under every interleaving of concurrently accepted connections the
\* merge is complete before any request is routed.  A connection that has
\* been accepted finds its server merged; the table a request is routed
\* against is the result of a whole merge and has every name of both tables
\* that were merged; and no request that names an endpoint registered before
\* the first connection was accepted is answered as unknown.  (In
\* SpecConcurrent every registration precedes the first accept.)
C19_MergeCompleteBeforeRouting ==
    \A c \in PrimaryConns :
        pc[c] # "new"
        => LET s == srv[c]
               m == last_merge[s]
           IN  /\ m.count >= 1
               /\ endpoints[s] = m.effective
               /\ (DOMAIN m.inst) \cup (DOMAIN m.routes) \cup (DOMAIN Server_ROUTES)
                     \subseteq DOMAIN endpoints[s]
               /\ (cur[c].frame.kind = "object"
                     /\ cur[c].frame.obj.endpoint \in
                           (DOMAIN m.inst) \cup (DOMAIN Server_ROUTES))
                  => /\ cur[c].invoked # <<>>
                     /\ \A i \in 1..Len(cur[c].sent) : cur[c].sent[i].code # 400

\* C19 witness: c1 has been accepted and is suspended before its loop while
\* c2, accepted by a second merge, has had a request routed to the
\* process-wide endpoint "a".
C19_Witness ==
    /\ pc["c1"] = "prepare"
    /\ last_merge["s1"].count = 2
    /\ cur["c2"].invoked # <<>>
    /\ cur["c2"].frame.obj.endpoint = "a"

\* C20: destroy() may be called at any point after start() has returned,
\* before the setup tasks have run and while a setup task is suspended
\* between creating its runner and binding its site included: in every
\* interleaving destroy() completes without raising, and no listener is
\* bound once destroy() and all setup tasks have finished.
C20_DestroyAtAnyTimeCompletesAndUnbinds ==
    /\ destroy_pc # "raised"
    /\ (destroy_pc \in {"done", "raised"} /\ SetupFinished)
       => \A l \in Listeners : site_st[l] # "bound"

====
